---- MODULE Spec2Model ----
(***************************************************************************)
(* Model of libs/apihandler.py (Bismuth node): ApiHandler.dispatch and the *)
(* api_* query handlers it routes to, over a ledger store (the             *)
(* transactions and misc tables), the mempool store and a client session.  *)
(*                                                                         *)
(* One dispatch is one step: the handler runs to completion on the         *)
(* client's serving thread.  The variables sent, app_log, db_calls,        *)
(* consumed, decoded and result describe the most recent dispatch.         *)
(***************************************************************************)
EXTENDS Integers, Sequences, FiniteSets, TLC

\* ------------------------------------------------------------- bounds

\* Blocks that may be appended to the ledger during a run.
MaxAppend == 2
\* Heights of the ledgers a run may start from: a short chain and a long one.
ShortChain == 2
MidChain == 14
LongChain == 725
DeepChain == 1445
\* Reward of a mining transaction, in 1e-8 units.
RewardUnits == 3
\* Longest row list fed to blocktojsondiffs as a pure function.
MaxRows == 4
DiffHeights == 3

\* -------------------------------------------------- program constants

\* api_getbalance: balance / 100000000 when the db is not legacy.
SCALE == 100000000
\* api_getaddressrange: if limit > 500: limit = 500
ADDRESS_RANGE_CAP == 500
\* api_getblockrange: if limit > 50: limit = 50
BLOCK_RANGE_CAP == 50
\* api_getblocksince: max(db_handler.block_height_max()-11, since_height)
SINCE_BACK == 11
\* api_getaddresssince: min(block_height_max() - min_confirmations, since_height+720)
ADDRESS_SINCE_SPAN == 720
\* api_getblockswhereoflike: min(block_height_max(), since_height+1440)
OPENFIELD_SPAN == 1440

VARIABLES
    transactions,   \* ledger store: rows of table transactions, in rowid order
    misc,           \* ledger store: rows of table misc (block_height, difficulty)
    legacy_db,      \* self.config.legacy_db
    mempool,        \* mp.MEMPOOL: None, or the pending transactions
    callbacks,      \* self.callbacks
    appended,       \* blocks appended to the ledger so far in this run
    method,         \* command name of the most recent dispatch
    args,           \* parameters the client sent after that command
    result,         \* what dispatch returned: "None" or "False"; "Raised" if it raised
    exception,      \* the exception raised inside that dispatch ("" when none)
    sent,           \* values written to the session by that dispatch
    consumed,       \* parameters read from the session by that dispatch
    app_log,        \* records logged by that dispatch
    db_calls,       \* ledger store calls made by that dispatch
    decoded,        \* encoding the handler assumed for the rows it returned
    invoked,        \* whether that dispatch called a handler
    db_rows,        \* rows table transactions held when that dispatch ran
    failed_before,  \* whether an earlier dispatch on this session returned False
    pc,             \* the serving thread: "idle" (waiting for a command) or "answered"
    session_up,     \* whether the session's socket still carries data
    callback_lock,  \* self.callback_lock: "free" or "held"
    peers,          \* peers.consensus: the ips of the connected peers
    work,           \* a balance call in progress on another thread (<<>> when none)
    page            \* a paginating client's progress (<<>> when none)

vars == <<transactions, misc, legacy_db, mempool, callbacks, appended, method,
          args, result, exception, sent, consumed, app_log, db_calls, decoded, invoked,
          db_rows, failed_before, pc, session_up, callback_lock, peers, work, page>>

\* What no handler of the session's serving thread writes.
env_vars == <<session_up, callback_lock, peers, work, page>>

dispatch_vars == <<method, args, result, exception, sent, consumed, app_log, db_calls,
                   decoded, invoked, db_rows, failed_before, pc>>


\* ------------------------------------------------------ wire values

\* A value read from the session is dynamically typed.
IntV(n) == [t |-> "int", v |-> n]
StrV(s) == [t |-> "str", v |-> s]
ListV(l) == [t |-> "list", v |-> l]
BoolV(b) == [t |-> "bool", v |-> b]

IsInt(x) == x.t = "int"
IsStr(x) == x.t = "str"
IsList(x) == x.t = "list"

\* ---------------------------------------------------------- numbers

\* A number num/den: an integer (den = 1, a v2 amount in 1e-8 units) or a
\* decimal with eight places (den = SCALE, a legacy amount in coins).
Num(n, d) == [num |-> n, den |-> d]
Integer(n) == Num(n, 1)
Decimal(n) == Num(n, SCALE)

Max2(a, b) == IF a >= b THEN a ELSE b
Min2(a, b) == IF a <= b THEN a ELSE b

NumAdd(x, y) ==
    IF x.den = y.den THEN Num(x.num + y.num, x.den)
    ELSE IF x.den = 1 THEN Num(x.num * SCALE + y.num, SCALE)
    ELSE Num(x.num + y.num * SCALE, SCALE)

NumNeg(x) == Num(0 - x.num, x.den)
NumSub(x, y) == NumAdd(x, NumNeg(y))
NumIsZero(x) == x.num = 0
NumPositive(x) == x.num > 0

\* balance / 100000000
DivScale(x) == IF x.den = 1 THEN Num(x.num, SCALE) ELSE Num(x.num, x.den * SCALE)

\* ------------------------------------------------------ ledger store

Addresses == {"a1", "a2"}

\* A row of table transactions.  amount, fee and reward are kept as the count of
\* 1e-8 units; what a query hands back for them depends on the db encoding,
\* see Cell.  signature identifies the row.
Row(h, snd, rcp, amt, fee, rwd, opf, sig) ==
    [block_height |-> h, address |-> snd, recipient |-> rcp, amount |-> amt,
     fee |-> fee, reward |-> rwd, openfield |-> opf, signature |-> sig]

\* What the db holds for an amount of n units: a decimal number of coins in a
\* legacy db, the integer n in a v2 db.
Cell(n) == IF legacy_db THEN Decimal(n) ELSE Integer(n)

\* A row as fetchall() hands it back.
Fetched(r) == [r EXCEPT !.amount = Cell(@), !.fee = Cell(@), !.reward = Cell(@)]

MapFetched(rows) == [i \in 1..Len(rows) |-> Fetched(rows[i])]

\* max(block_height) over rows[lo..hi], by halves.
RECURSIVE MaxHeightIn(_, _, _)
MaxHeightIn(rows, lo, hi) ==
    IF lo > hi THEN 0
    ELSE IF lo = hi THEN rows[lo].block_height
    ELSE LET mid == (lo + hi) \div 2
         IN  Max2(MaxHeightIn(rows, lo, mid), MaxHeightIn(rows, mid + 1, hi))

\* db_handler.block_height_max(): the ledger's current maximum height.
block_height_max == MaxHeightIn(transactions, 1, Len(transactions))

\* The sum of column col over rows[lo..hi], by halves.
RECURSIVE SumIn(_, _, _, _)
SumIn(rows, col, lo, hi) ==
    IF lo > hi THEN 0
    ELSE IF lo = hi THEN rows[lo][col]
    ELSE LET mid == (lo + hi) \div 2
         IN  SumIn(rows, col, lo, mid) + SumIn(rows, col, mid + 1, hi)

SumUnits(rows, col) == SumIn(rows, col, 1, Len(rows))

\* SQL sum(col) over the selected rows: NULL (the empty tuple here) when no row
\* is selected, else the one value.
SqlSum(rows, col) == IF rows = <<>> THEN <<>> ELSE <<Cell(SumUnits(rows, col))>>

\* SQL a + b: NULL when either side is NULL.
SqlAdd(a, b) == IF a = <<>> \/ b = <<>> THEN <<>> ELSE <<NumAdd(a[1], b[1])>>

\* Python's "if not x: x = 0" on a fetched aggregate.
OrZero(x) == IF x = <<>> \/ NumIsZero(x[1]) THEN Integer(0) ELSE x[1]

\* A record of one call to the ledger store.
DbCall(op, p) == [op |-> op, params |-> p]

\* ----------------------------------------------- transaction codec

\* Transaction.from_v2(row): a v2 row holds integer units.
from_v2(row) ==
    [row EXCEPT !.amount = @.num, !.fee = @.num, !.reward = @.num]

\* Transaction.from_legacy(row): a legacy row holds coins; units = coins * 1e8.
CoinsToUnits(c) == IF c.den = SCALE THEN c.num ELSE c.num * SCALE

from_legacy(row) ==
    [row EXCEPT !.amount = CoinsToUnits(@), !.fee = CoinsToUnits(@),
                !.reward = CoinsToUnits(@)]

\* Transaction.to_tuple(): the legacy tuple, amounts as decimal coins.
to_tuple(tx) ==
    [tx EXCEPT !.amount = Decimal(@), !.fee = Decimal(@), !.reward = Decimal(@)]

\* Transaction.to_dict(legacy=True): amounts formatted with eight decimals.
to_dict(tx) == to_tuple(tx)

MapV2ToTuple(rows) == [i \in 1..Len(rows) |-> to_tuple(from_v2(rows[i]))]

\* "if not self.config.legacy_db: info = [Transaction.from_v2(tx).to_tuple() ...]"
ConvertIfV2(info) == IF ~legacy_db THEN MapV2ToTuple(info) ELSE info

\* The encoding that conversion assumes for the stored rows.
EncodingByFlag == IF ~legacy_db THEN "v2" ELSE "legacy"

\* ------------------------------------------------ blocktojsondiffs

\* A normal transaction of the output: block_height, block_hash and reward deleted.
NormalTx(tf) ==
    [address |-> tf.address, recipient |-> tf.recipient, amount |-> tf.amount,
     fee |-> tf.fee, openfield |-> tf.openfield, signature |-> tf.signature]

\* A mining transaction of the output: block_height, address and amount deleted,
\* difficulty added.
MiningTx(tf, difficulty) ==
    [recipient |-> tf.recipient, fee |-> tf.fee, reward |-> tf.reward,
     openfield |-> tf.openfield, signature |-> tf.signature,
     difficulty |-> difficulty]

\* transaction_formatted["reward"] == "0.00000000"
IsNormalReward(tf) == tf.reward.num = 0

\* blocks_dict[height] = dict(block_dict)
DictPut(d, k, v) == [x \in (DOMAIN d) \cup {k} |-> IF x = k THEN v ELSE d[x]]

\* The loop's state before any row: i, blocks_dict, normal_transactions, old
\* (None is the empty tuple), and whether list_of_diffs[i] raised IndexError.
DiffsStart ==
    [i |-> 0, blocks_dict |-> <<>>, normal_transactions |-> <<>>, old |-> <<>>,
     raised |-> FALSE]

\* The iteration without "if old != height: ... del normal_transactions[:]".
DiffsStep_no_clear(st, transaction, list_of_diffs) ==
    LET tf == to_dict(from_legacy(transaction))
        height == tf.block_height
    IN  IF IsNormalReward(tf)
        THEN [st EXCEPT !.normal_transactions = Append(@, NormalTx(tf)),
                        !.old = <<height>>]
        ELSE IF st.i + 1 > Len(list_of_diffs)
        THEN [st EXCEPT !.raised = TRUE]
        ELSE [st EXCEPT
                !.blocks_dict =
                    DictPut(@, height,
                            [mining_tx |-> MiningTx(tf, list_of_diffs[st.i + 1][1]),
                             transactions |-> st.normal_transactions]),
                !.i = @ + 1,
                !.old = <<height>>]

\* One iteration of "for transaction in list_of_txs".
DiffsStep(st, transaction, list_of_diffs) ==
    LET tf == to_dict(from_legacy(transaction))
        height == tf.block_height
        normal == IF st.old # <<height>> THEN <<>> ELSE st.normal_transactions
    IN  IF IsNormalReward(tf)
        THEN [st EXCEPT !.normal_transactions = Append(normal, NormalTx(tf)),
                        !.old = <<height>>]
        ELSE IF st.i + 1 > Len(list_of_diffs)
        THEN [st EXCEPT !.raised = TRUE]
        ELSE [st EXCEPT
                !.blocks_dict =
                    DictPut(@, height,
                            [mining_tx |-> MiningTx(tf, list_of_diffs[st.i + 1][1]),
                             transactions |-> normal]),
                !.normal_transactions = normal,
                !.i = @ + 1,
                !.old = <<height>>]

RECURSIVE DiffsLoop(_, _, _, _)
DiffsLoop(st, list_of_txs, list_of_diffs, k) ==
    IF k > Len(list_of_txs) \/ st.raised THEN st
    ELSE DiffsLoop(DiffsStep(st, list_of_txs[k], list_of_diffs),
                   list_of_txs, list_of_diffs, k + 1)

\* blocktojsondiffs(list_of_txs, list_of_diffs): the dict, or IndexError raised.
blocktojsondiffs(list_of_txs, list_of_diffs) ==
    LET st == DiffsLoop(DiffsStart, list_of_txs, list_of_diffs, 1)
    IN  [raised |-> st.raised, blocks_dict |-> st.blocks_dict]

\* ------------------------------------------------- handler outcomes

\* What one handler call did: whether it raised (and what), the values it wrote
\* to the session, the parameters it read from it, what it logged, the ledger
\* store calls it made, the encoding it assumed for the rows it returned
\* ("none" when it returned no rows), and the mempool store it leaves.
Outcome(raised, exc, out, n, log, calls, dec) ==
    [raised |-> raised, exc |-> exc, sent |-> out, consumed |-> n, log |-> log,
     calls |-> calls, decoded |-> dec, mempool |-> mempool]

Returns(out, n, log, calls, dec) == Outcome(FALSE, "", out, n, log, calls, dec)
Raises(exc, n, log, calls) == Outcome(TRUE, exc, <<>>, n, log, calls, "none")

LogRec(level, where, text) == [level |-> level, where |-> where, text |-> text]

\* mp.MEMPOOL is None until the mempool store is initialised.
MempoolNone == [available |-> FALSE, txs |-> <<>>]
Mempool(txs) == [available |-> TRUE, txs |-> txs]

\* --------------------------------------------------- simple handlers

\* api_ping that empties the mempool store on its way.
api_ping_clearing(a) ==
    [Returns(<<"api_pong">>, 0, <<>>, <<>>, "none") EXCEPT !.mempool = Mempool(<<>>)]

api_ping(a) == Returns(<<"api_pong">>, 0, <<>>, <<>>, "none")

api_mempool(a) ==
    IF ~mempool.available
    THEN Returns(<<[tuples |-> <<>>]>>, 0,
                 <<LogRec("error", "api_mempool", "MEMPOOL is None")>>, <<>>, "none")
    ELSE Returns(<<[tuples |-> mempool.txs]>>, 0, <<>>, <<>>, "none")

api_clearmempool(a) ==
    IF ~mempool.available
    THEN Raises("AttributeError: 'NoneType' object has no attribute 'clear'",
                0, <<>>, <<>>)
    ELSE [Returns(<<"ok">>, 0, <<>>, <<>>, "none") EXCEPT !.mempool = Mempool(<<>>)]

\* {key: self.config.__getattribute__(key) for key in slots}
api_getconfig(a) == Returns(<<[legacy_db |-> legacy_db]>>, 0, <<>>, <<>>, "none")

\* What the handlers that catch and only log leave when connections.send raised.
Swallowed(where, calls) ==
    Outcome(FALSE, "", <<>>, 0,
            <<LogRec("warning", where, "ConnectionError: session is down")>>,
            calls, "none")

\* api_getpeerinfo with the send outside its try, as most handlers have it.
api_getpeerinfo_unguarded(a) ==
    Returns(<<[k \in 1..Len(peers) |-> [id |-> k - 1, addr |-> peers[k], inbound |-> TRUE]]>>,
            0, <<>>, <<>>, "none")

\* api_getpeerinfo: the list is built and sent inside a try whose except logs
\* and returns.
api_getpeerinfo(a) ==
    IF ~session_up
    THEN Swallowed("api_getpeerinfo", <<>>)
    ELSE Returns(<<[k \in 1..Len(peers) |->
                       [id |-> k - 1, addr |-> peers[k], inbound |-> TRUE]]>>,
                 0, <<>>, <<>>, "none")

\* SignerFactory.address_is_valid(address): the strings of a known address format.
ValidAddresses == Addresses \cup {"a3"}

address_is_valid(address) == address \in ValidAddresses

\* db_handler.known_address(address): whether a transaction names the address.
known_address(address) ==
    \E i \in 1..Len(transactions) :
        transactions[i].address = address \/ transactions[i].recipient = address

\* db_handler.pubkeyget(address): the public key of a transaction the address
\* signed; the lookup raises when there is none (the empty tuple here).
pubkeyget(address) ==
    IF \E i \in 1..Len(transactions) :
            transactions[i].address = address /\ transactions[i].reward = 0
    THEN <<"pubkey", address>>
    ELSE <<>>

\* api_getaddressinfo that looks the address up without the format check.
api_getaddressinfo_unchecked(a) ==
    Returns(<<[known |-> known_address(a[1].v), pubkey |-> pubkeyget(a[1].v)]>>,
            1, <<>>,
            <<DbCall("known_address", <<a[1].v>>), DbCall("pubkeyget", <<a[1].v>>)>>,
            "none")

api_getaddressinfo(a) ==
    LET address == a[1].v
        lookups == <<DbCall("known_address", <<address>>),
                     DbCall("pubkeyget", <<address>>)>>
    IN  IF ~address_is_valid(address)
        THEN Returns(<<[known |-> FALSE, pubkey |-> <<>>]>>, 1,
                     <<LogRec("info", "api_getaddressinfo", "Bad address format")>>,
                     <<>>, "none")
        ELSE IF pubkeyget(address) = <<>>
        THEN Returns(<<[known |-> known_address(address), pubkey |-> <<>>]>>, 1,
                     <<LogRec("warning", "api_getaddressinfo",
                              "TypeError: 'NoneType' object is not subscriptable")>>,
                     lookups, "none")
        ELSE Returns(<<[known |-> known_address(address),
                        pubkey |-> pubkeyget(address)]>>,
                     1, <<>>, lookups, "none")

\* db_handler.get_block_from_hash(hash).to_blocks_dict(): the block of that
\* hash keyed by its height, empty when no block has it.  The hash of the
\* block of height h is written h.
get_block_from_hash(block_hash) ==
    LET rows == SelectSeq(transactions, LAMBDA r : r.block_height = block_hash)
    IN  IF rows = <<>> THEN <<>>
        ELSE [h \in {block_hash} |->
                [block_height |-> h, transactions |-> MapFetched(rows)]]

\* db_handler.get_block(height).to_blocks_dict()
get_block(height) == get_block_from_hash(height)

\* db_handler.get_block_hash_for_height(height): 0 for None.
get_block_hash_for_height(height) ==
    IF \E i \in 1..Len(transactions) : transactions[i].block_height = height
    THEN height ELSE 0

\* db_handler.get_difficulty_for_height(height)
get_difficulty_for_height(height) ==
    LET found == SelectSeq(misc, LAMBDA m : m.block_height = height)
    IN  IF found = <<>> THEN 0 ELSE found[1].difficulty

api_getblockfromhash(a) ==
    Returns(<<get_block_from_hash(a[1].v)>>, 1, <<>>,
            <<DbCall("get_block_from_hash", <<a[1].v>>)>>, "none")

api_getblockfromheight(a) ==
    Returns(<<get_block(a[1].v)>>, 1, <<>>, <<DbCall("get_block", <<a[1].v>>)>>, "none")

\* An except that re-raises without logging.
ExtraWarnings_none(text) == <<>>

\* The two warnings of api_getblockfromhashextra's except, before its raise.
ExtraWarnings(text) ==
    <<LogRec("warning", "api_getblockfromhashextra", text),
      LogRec("warning", "api_getblockfromhashextra", "exc_type fname lineno")>>

api_getblockfromhashextra(a) ==
    LET blocks == get_block_from_hash(a[1].v)
        looked == <<DbCall("get_block_from_hash", <<a[1].v>>)>>
    IN  IF ~session_up
        THEN Raises("ConnectionError: session is down", 0,
                    ExtraWarnings("ConnectionError: session is down"), <<>>)
        ELSE IF blocks = <<>>
        THEN Raises("IndexError: list index out of range", 1,
                    ExtraWarnings("IndexError: list index out of range"), looked)
        ELSE LET block_height == a[1].v
                 block == blocks[block_height]
             IN  Returns(<<[block_height |-> block_height,
                            transactions |-> block.transactions,
                            previous_block_hash |->
                                get_block_hash_for_height(block_height - 1),
                            next_block_hash |->
                                get_block_hash_for_height(block_height + 1),
                            difficulty |-> get_difficulty_for_height(block_height)]>>,
                         1, <<>>,
                         looked \o
                         <<DbCall("get_block_hash_for_height", <<block_height - 1>>),
                           DbCall("get_block_hash_for_height", <<block_height + 1>>),
                           DbCall("get_difficulty_for_height", <<block_height>>)>>,
                         "none")

\* ------------------------------------------------- disabled handlers

\* Reads its two parameters, logs, then raises before any query.
api_getblocksafterwhere(a) ==
    Raises("ValueError: Unsafe, do not use yet", 2,
           <<LogRec("warning", "api_getblocksafterwhere", "api_getblocksafterwhere")>>,
           <<>>)

\* api_gettransaction with its leading raise removed: the query below it runs.
api_gettransaction_enabled(a) ==
    Returns(<<[raw |-> SelectSeq(transactions, LAMBDA r : FALSE)]>>, 2, <<>>,
            <<DbCall("select_transaction_by_signature", <<>>)>>, "none")

api_gettransaction(a) == Raises("ValueError: Do not use yet - Rewrite", 0, <<>>, <<>>)

api_gettransactionbysignature(a) ==
    Raises("ValueError: Do not use yet - Rewrite", 0, <<>>, <<>>)

api_gettransaction_for_recipients(a) ==
    Raises("ValueError: Do not use yet - Rewrite", 0, <<>>, <<>>)

\* ----------------------------------------------------- range handlers

\* db_handler.get_address_range(address, starting_block, limit): at most limit
\* of the address's transactions from starting_block on; a negative limit is
\* no limit to the SQL engine.
get_address_range(address, starting_block, limit) ==
    LET found == SelectSeq(transactions,
                     LAMBDA r: /\ r.block_height >= starting_block
                               /\ (r.address = address \/ r.recipient = address))
    IN  MapFetched(IF limit < 0 THEN found
                   ELSE SubSeq(found, 1, Min2(limit, Len(found))))

\* api_getaddressrange without "if limit > 500: limit = 500".
api_getaddressrange_uncapped(a) ==
    IF ~IsInt(a[3])
    THEN Raises("TypeError: '>' not supported", 3, <<>>, <<>>)
    ELSE Returns(<<[entries |-> get_address_range(a[1].v, a[2].v, a[3].v)]>>, 3, <<>>,
                 <<DbCall("get_address_range", <<a[1].v, a[2].v, a[3].v>>)>>,
                 "none")

api_getaddressrange(a) ==
    LET address == a[1]
        starting_block == a[2]
        limit0 == a[3]
    IN  IF ~IsInt(limit0)
        THEN Raises("TypeError: '>' not supported", 3, <<>>, <<>>)
        ELSE LET limit == IF limit0.v > ADDRESS_RANGE_CAP
                          THEN ADDRESS_RANGE_CAP ELSE limit0.v
                 txs == get_address_range(address.v, starting_block.v, limit)
             IN  Returns(<<[entries |-> txs]>>, 3, <<>>,
                         <<DbCall("get_address_range",
                                  <<address.v, starting_block.v, limit>>)>>,
                         "none")

\* 'SELECT * FROM transactions WHERE block_height >= ? AND block_height < ?'
SelectTxRange(lo, hi) ==
    MapFetched(SelectSeq(transactions,
                   LAMBDA r: r.block_height >= lo /\ r.block_height < hi))

\* 'SELECT difficulty FROM misc WHERE block_height >= ? AND block_height < ?'
SelectDiffRange(lo, hi) ==
    LET found == SelectSeq(misc,
                     LAMBDA m: m.block_height >= lo /\ m.block_height < hi)
    IN  [i \in 1..Len(found) |-> <<found[i].difficulty>>]

api_getblockrange(a) ==
    LET start_block == a[1]
        limit0 == a[2]
    IN  IF ~IsInt(limit0)
        THEN Raises("TypeError: '>' not supported", 2, <<>>, <<>>)
        ELSE IF ~IsInt(start_block)
        THEN Raises("TypeError: unsupported operand type(s) for +", 2,
                    <<LogRec("warning", "api_getblockrange",
                             "TypeError: unsupported operand type(s) for +")>>,
                    <<>>)
        ELSE LET limit == IF limit0.v > BLOCK_RANGE_CAP
                          THEN BLOCK_RANGE_CAP ELSE limit0.v
                 lo == start_block.v
                 hi == start_block.v + limit
                 raw_txs == SelectTxRange(lo, hi)
                 raw_diffs == SelectDiffRange(lo, hi)
                 calls == <<DbCall("select_transactions_range", <<lo, hi>>),
                            DbCall("select_misc_range", <<lo, hi>>)>>
                 d == blocktojsondiffs(raw_txs, raw_diffs)
             IN  IF d.raised
                 THEN Raises("IndexError: list index out of range", 2,
                             <<LogRec("warning", "api_getblockrange",
                                      "IndexError: list index out of range")>>,
                             calls)
                 ELSE Returns(<<[json |-> d.blocks_dict]>>, 2, <<>>, calls, "legacy")

\* 'SELECT * FROM transactions WHERE block_height > ?'
SelectTxAbove(h) ==
    MapFetched(SelectSeq(transactions, LAMBDA r: r.block_height > h))

\* api_getblocksince that ignores since_height and always goes SINCE_BACK back.
api_getblocksince_always_recent(a) ==
    IF ~IsInt(a[1])
    THEN Raises("TypeError: '>' not supported", 1, <<>>,
                <<DbCall("block_height_max", <<>>)>>)
    ELSE Returns(<<ConvertIfV2(SelectTxAbove(block_height_max - SINCE_BACK))>>,
                 1, <<>>,
                 <<DbCall("block_height_max", <<>>),
                   DbCall("select_transactions_above",
                          <<block_height_max - SINCE_BACK>>)>>,
                 EncodingByFlag)

api_getblocksince(a) ==
    LET since_height == a[1]
    IN  IF ~IsInt(since_height)
        THEN Raises("TypeError: '>' not supported", 1, <<>>,
                    <<DbCall("block_height_max", <<>>)>>)
        ELSE LET block_height == Max2(block_height_max - SINCE_BACK, since_height.v)
                 info == ConvertIfV2(SelectTxAbove(block_height))
             IN  Returns(<<info>>, 1, <<>>,
                         <<DbCall("block_height_max", <<>>),
                           DbCall("select_transactions_above", <<block_height>>)>>,
                         EncodingByFlag)

\* SQL LIKE as sqlite evaluates it: % matches any run of characters, _ any one
\* character, letters match without regard to case.
Lower(c) == IF c = "A" THEN "a" ELSE IF c = "B" THEN "b" ELSE c

RECURSIVE Like(_, _)
Like(str, pat) ==
    IF pat = <<>> THEN str = <<>>
    ELSE IF Head(pat) = "%"
    THEN Like(str, Tail(pat)) \/ (str # <<>> /\ Like(Tail(str), pat))
    ELSE /\ str # <<>>
         /\ (Head(pat) = "_" \/ Lower(Head(str)) = Lower(Head(pat)))
         /\ Like(Tail(str), Tail(pat))

\* "SELECT * FROM transactions WHERE block_height > ? and block_height <= ?
\*  and openfield like ?"
SelectTxOpenfieldLike(lo, hi, pattern) ==
    MapFetched(SelectSeq(transactions,
                   LAMBDA r: /\ r.block_height > lo
                             /\ r.block_height <= hi
                             /\ Like(r.openfield, pattern)))

\* api_getblockswhereoflike whose upper bound is the max height, with no span cap.
api_getblockswhereoflike_uncapped(a) ==
    IF ~IsInt(a[1])
    THEN Raises("ValueError: invalid literal for int()", 1, <<>>, <<>>)
    ELSE IF ~IsStr(a[2])
    THEN Raises("TypeError: unsupported operand type(s) for +", 2, <<>>, <<>>)
    ELSE Returns(<<Append(ConvertIfV2(SelectTxOpenfieldLike(a[1].v, block_height_max,
                                                            Append(a[2].v, "%"))),
                          <<block_height_max>>)>>,
                 2, <<>>,
                 <<DbCall("block_height_max", <<>>),
                   DbCall("select_transactions_openfield_like",
                          <<a[1].v, block_height_max>>)>>,
                 EncodingByFlag)

api_getblockswhereoflike(a) ==
    LET since0 == a[1]
        prefix == a[2]
    IN  IF ~IsInt(since0)
        THEN Raises("ValueError: invalid literal for int()", 1, <<>>, <<>>)
        ELSE IF ~IsStr(prefix)
        THEN Raises("TypeError: unsupported operand type(s) for +", 2, <<>>, <<>>)
        ELSE LET since_height == since0.v
                 where_openfield_like == Append(prefix.v, "%")
                 block_height == Min2(block_height_max, since_height + OPENFIELD_SPAN)
                 info == ConvertIfV2(SelectTxOpenfieldLike(since_height, block_height,
                                                           where_openfield_like))
             IN  Returns(<<Append(info, <<block_height>>)>>, 2, <<>>,
                         <<DbCall("block_height_max", <<>>),
                           DbCall("select_transactions_openfield_like",
                                  <<since_height, block_height>>)>>,
                         EncodingByFlag)

\* ORDER BY block_height ASC: rows of equal height keep their rowid order.
RECURSIVE InsertByHeight(_, _)
InsertByHeight(sorted, r) ==
    IF sorted = <<>> THEN <<r>>
    ELSE IF sorted[Len(sorted)].block_height <= r.block_height
    THEN Append(sorted, r)
    ELSE Append(InsertByHeight(SubSeq(sorted, 1, Len(sorted) - 1), r),
                sorted[Len(sorted)])

RECURSIVE OrderFrom(_, _, _)
OrderFrom(rows, i, acc) ==
    IF i > Len(rows) THEN acc
    ELSE OrderFrom(rows, i + 1, InsertByHeight(acc, rows[i]))

OrderByHeight(rows) ==
    IF \A i \in 1..(Len(rows) - 1) : rows[i].block_height <= rows[i + 1].block_height
    THEN rows
    ELSE OrderFrom(rows, 1, <<>>)

\* 'SELECT * FROM transactions WHERE block_height > ? AND block_height <= ?
\*  AND ((address = ?) OR (recipient = ?)) ORDER BY block_height ASC'
SelectTxAddressWindow(lo, hi, address) ==
    MapFetched(OrderByHeight(
        SelectSeq(transactions,
            LAMBDA r: /\ r.block_height > lo
                      /\ r.block_height <= hi
                      /\ (r.address = address \/ r.recipient = address))))

\* api_getaddresssince whose upper bound is max height - minconf, with no span cap.
api_getaddresssince_uncapped(a) ==
    IF ~IsInt(a[1])
    THEN Raises("ValueError: invalid literal for int()", 1, <<>>, <<>>)
    ELSE IF ~IsInt(a[2])
    THEN Raises("ValueError: invalid literal for int()", 2, <<>>, <<>>)
    ELSE LET block_height == block_height_max - a[2].v
         IN  Returns(<<[last |-> block_height, minconf |-> a[2].v,
                        transactions |->
                            ConvertIfV2(SelectTxAddressWindow(a[1].v, block_height,
                                                              a[3].v))]>>,
                     3, <<>>,
                     <<DbCall("block_height_max", <<>>),
                       DbCall("select_transactions_address_window",
                              <<a[1].v, block_height>>)>>,
                     EncodingByFlag)

api_getaddresssince(a) ==
    LET since0 == a[1]
        minconf0 == a[2]
        address == a[3]
    IN  IF ~IsInt(since0)
        THEN Raises("ValueError: invalid literal for int()", 1, <<>>, <<>>)
        ELSE IF ~IsInt(minconf0)
        THEN Raises("ValueError: invalid literal for int()", 2, <<>>, <<>>)
        ELSE LET since_height == since0.v
                 min_confirmations == minconf0.v
                 block_height == Min2(block_height_max - min_confirmations,
                                      since_height + ADDRESS_SINCE_SPAN)
                 info == ConvertIfV2(SelectTxAddressWindow(since_height, block_height,
                                                           address.v))
             IN  Returns(<<[last |-> block_height, minconf |-> min_confirmations,
                            transactions |-> info]>>,
                         3, <<>>,
                         <<DbCall("block_height_max", <<>>),
                           DbCall("select_transactions_address_window",
                                  <<since_height, block_height>>)>>,
                         EncodingByFlag)

\* --------------------------------------------------------- aggregates

\* "... FROM transactions WHERE recipient = ? and block_height <= ?"
RowsTo(address, h) ==
    SelectSeq(transactions, LAMBDA r: r.recipient = address /\ r.block_height <= h)

\* "... FROM transactions WHERE address = ? and block_height <= ?"
RowsFrom(address, h) ==
    SelectSeq(transactions, LAMBDA r: r.address = address /\ r.block_height <= h)

\* _get_balance: "SELECT sum(amount)+sum(reward) ...", then "if not credit: credit = 0"
BalanceCredit(address, max_block_height) ==
    LET rows == RowsTo(address, max_block_height)
    IN  OrZero(SqlAdd(SqlSum(rows, "amount"), SqlSum(rows, "reward")))

\* _get_balance: "SELECT sum(amount)+sum(fee) ...", then "if not debit: debit = 0"
BalanceDebit(address, max_block_height) ==
    LET rows == RowsFrom(address, max_block_height)
    IN  OrZero(SqlAdd(SqlSum(rows, "amount"), SqlSum(rows, "fee")))

\* _get_balance whose debit query sums the amounts only, not amount + fee.
_get_balance_no_fee(address, minconf) ==
    LET max_block_height == block_height_max - minconf
        credit == BalanceCredit(address, max_block_height)
        debit == OrZero(SqlSum(RowsFrom(address, max_block_height), "amount"))
    IN  NumSub(credit, debit)

_get_balance(address, minconf) ==
    LET max_block_height == block_height_max - minconf
        credit == BalanceCredit(address, max_block_height)
        debit == BalanceDebit(address, max_block_height)
    IN  NumSub(credit, debit)

\* _get_received with the credit query of _get_balance: sum(amount)+sum(reward).
_get_received_with_reward(address, minconf) ==
    BalanceCredit(address, block_height_max - minconf)

\* _get_received: "SELECT sum(amount) ...", then "if not credit: credit = 0"
_get_received(address, minconf) ==
    LET max_block_height == block_height_max - minconf
    IN  OrZero(SqlSum(RowsTo(address, max_block_height), "amount"))

\* The store calls of one _get_balance / _get_received.
BalanceCalls(address) ==
    <<DbCall("block_height_max", <<>>), DbCall("select_sum_credit", <<address>>),
      DbCall("select_sum_debit", <<address>>)>>
ReceivedCalls(address) ==
    <<DbCall("block_height_max", <<>>), DbCall("select_sum_credit", <<address>>)>>

RECURSIVE BalanceCallsFor(_, _)
BalanceCallsFor(addresses, i) ==
    IF i > Len(addresses) THEN <<>>
    ELSE BalanceCalls(addresses[i]) \o BalanceCallsFor(addresses, i + 1)

RECURSIVE ReceivedCallsFor(_, _)
ReceivedCallsFor(addresses, i) ==
    IF i > Len(addresses) THEN <<>>
    ELSE ReceivedCalls(addresses[i]) \o ReceivedCallsFor(addresses, i + 1)

\* "for address in addresses: balance += self._get_balance(db_handler, address, minconf)"
RECURSIVE BalanceTotal(_, _, _, _)
BalanceTotal(addresses, minconf, i, balance) ==
    IF i > Len(addresses) THEN balance
    ELSE BalanceTotal(addresses, minconf, i + 1,
                      NumAdd(balance, _get_balance(addresses[i], minconf)))

\* "for address in addresses: received += self._get_received(db_handler, address, minconf)"
RECURSIVE ReceivedTotal(_, _, _, _)
ReceivedTotal(addresses, minconf, i, received) ==
    IF i > Len(addresses) THEN received
    ELSE ReceivedTotal(addresses, minconf, i + 1,
                       NumAdd(received, _get_received(addresses[i], minconf)))

\* "if minconf < 1: minconf = 1"
ClampMinconf(minconf) == IF minconf < 1 THEN 1 ELSE minconf

\* "if not self.config.legacy_db: x = x / 100000000"
ToCoins(x) == IF ~legacy_db THEN DivScale(x) ELSE x

api_getbalance(a) ==
    LET addresses == a[1]
        minconf0 == a[2]
    IN  IF ~IsInt(minconf0)
        THEN Raises("TypeError: '<' not supported", 2, <<>>, <<>>)
        ELSE LET minconf == ClampMinconf(minconf0.v)
                 balance == BalanceTotal(addresses.v, minconf, 1, Integer(0))
             IN  Returns(<<ToCoins(balance)>>, 2, <<>>,
                         BalanceCallsFor(addresses.v, 1), "none")

api_getreceived(a) ==
    LET addresses == a[1]
        minconf0 == a[2]
    IN  IF ~IsInt(minconf0)
        THEN Raises("TypeError: '<' not supported", 2, <<>>, <<>>)
        ELSE LET minconf == ClampMinconf(minconf0.v)
                 received == ReceivedTotal(addresses.v, minconf, 1, Integer(0))
             IN  Returns(<<ToCoins(received)>>, 2, <<>>,
                         ReceivedCallsFor(addresses.v, 1), "none")

ListedSet(addresses) == {addresses[i] : i \in 1..Len(addresses)}

api_listreceived(a) ==
    LET addresses == a[1]
        minconf0 == a[2]
        include_empty == a[3]
    IN  IF ~IsInt(minconf0)
        THEN Raises("TypeError: '<' not supported", 2, <<>>, <<>>)
        ELSE LET minconf == ClampMinconf(minconf0.v)
                 kept == {x \in ListedSet(addresses.v) :
                            include_empty.v \/ NumPositive(_get_received(x, minconf))}
                 received == [x \in kept |-> ToCoins(_get_received(x, minconf))]
             IN  Returns(<<received>>, 3, <<>>,
                         ReceivedCallsFor(addresses.v, 1), "none")

api_listbalance(a) ==
    LET addresses == a[1]
        minconf0 == a[2]
        include_empty == a[3]
    IN  IF ~IsInt(minconf0)
        THEN Raises("TypeError: '<' not supported", 2, <<>>, <<>>)
        ELSE LET minconf == ClampMinconf(minconf0.v)
                 kept == {x \in ListedSet(addresses.v) :
                            include_empty.v
                            \/ NumPositive(ToCoins(_get_balance(x, minconf)))}
                 balances == [x \in kept |-> ToCoins(_get_balance(x, minconf))]
             IN  Returns(<<balances>>, 3, <<>>,
                         BalanceCallsFor(addresses.v, 1), "none")

\* ------------------------------------------------------------ dispatch

\* The api_* methods of ApiHandler modelled here.
HandlerNames ==
    {"api_ping", "api_mempool", "api_clearmempool",
     "api_getblocksafterwhere", "api_gettransaction",
     "api_gettransactionbysignature", "api_gettransaction_for_recipients",
     "api_getaddressrange", "api_getblockrange", "api_getblocksince",
     "api_getblockswhereoflike", "api_getaddresssince",
     "api_getbalance", "api_getreceived", "api_listreceived", "api_listbalance",
     "api_getconfig", "api_getaddressinfo", "api_getpeerinfo",
     "api_getblockfromhash", "api_getblockfromhashextra", "api_getblockfromheight"}

\* Attributes of ApiHandler that are not command handlers: getattr finds them,
\* calling them with (socket_handler, db_handler, peers) raises.
OtherAttributes == {"callbacks", "blocktojsondiffs", "_get_balance"}

\* call(socket_handler, db_handler, peers) for call = getattr(self, method).
call(m, a) ==
    CASE m = "api_ping" -> api_ping(a)
      [] m = "api_mempool" -> api_mempool(a)
      [] m = "api_clearmempool" -> api_clearmempool(a)
      [] m = "api_getblocksafterwhere" -> api_getblocksafterwhere(a)
      [] m = "api_gettransaction" -> api_gettransaction(a)
      [] m = "api_gettransactionbysignature" -> api_gettransactionbysignature(a)
      [] m = "api_gettransaction_for_recipients" -> api_gettransaction_for_recipients(a)
      [] m = "api_getaddressrange" -> api_getaddressrange(a)
      [] m = "api_getblockrange" -> api_getblockrange(a)
      [] m = "api_getblocksince" -> api_getblocksince(a)
      [] m = "api_getblockswhereoflike" -> api_getblockswhereoflike(a)
      [] m = "api_getaddresssince" -> api_getaddresssince(a)
      [] m = "api_getbalance" -> api_getbalance(a)
      [] m = "api_getreceived" -> api_getreceived(a)
      [] m = "api_listreceived" -> api_listreceived(a)
      [] m = "api_listbalance" -> api_listbalance(a)
      [] m = "api_getconfig" -> api_getconfig(a)
      [] m = "api_getaddressinfo" -> api_getaddressinfo(a)
      [] m = "api_getpeerinfo" -> api_getpeerinfo(a)
      [] m = "api_getblockfromhash" -> api_getblockfromhash(a)
      [] m = "api_getblockfromhashextra" -> api_getblockfromhashextra(a)
      [] m = "api_getblockfromheight" -> api_getblockfromheight(a)
      [] OTHER -> Raises("TypeError: object is not callable", 0, <<>>, <<>>)

\* The handler's outcome on a session whose socket is down: its first
\* connections.receive raises, or, when it reads nothing, its connections.send.
SessionDown(o) ==
    IF o.consumed > 0
    THEN Raises("ConnectionError: session is down", 0, <<>>, <<>>)
    ELSE IF o.raised \/ o.sent = <<>>
    THEN o
    ELSE [o EXCEPT !.raised = TRUE, !.exc = "ConnectionError: session is down",
                   !.sent = <<>>, !.decoded = "none"]

\* getattr(self, method) followed by the call: AttributeError when the name is
\* no attribute of the handler object.
Invoke(m, a) ==
    IF m \in HandlerNames \cup OtherAttributes
    THEN IF session_up THEN call(m, a) ELSE SessionDown(call(m, a))
    ELSE Raises("AttributeError: 'ApiHandler' object has no attribute", 0, <<>>, <<>>)

\* dispatch without its "except Exception": what the call raises reaches the caller.
dispatch_no_except(m, a) ==
    /\ pc = "idle"
    /\ \E o \in {Invoke(m, a)} :
          /\ result' = IF o.raised THEN "Raised" ELSE "None"
          /\ exception' = o.exc
          /\ sent' = o.sent
          /\ consumed' = o.consumed
          /\ app_log' = o.log
          /\ db_calls' = o.calls
          /\ decoded' = o.decoded
          /\ mempool' = o.mempool
    /\ method' = m
    /\ args' = a
    /\ invoked' = (m \in HandlerNames)
    /\ db_rows' = Len(transactions)
    /\ pc' = "answered"
    /\ UNCHANGED <<transactions, misc, legacy_db, callbacks, appended, failed_before>>
    /\ UNCHANGED env_vars

\* dispatch(method, socket_handler, db_handler, peers): the whole call, with
\* "except Exception" turning whatever was raised into a logged False.
dispatch(m, a) ==
    /\ pc = "idle"
    /\ \E o \in {Invoke(m, a)} :
          /\ result' = IF o.raised THEN "False" ELSE "None"
          /\ exception' = o.exc
          /\ sent' = o.sent
          /\ consumed' = o.consumed
          /\ app_log' = IF o.raised
                        THEN Append(o.log, LogRec("warning", "dispatch", o.exc))
                        ELSE o.log
          /\ db_calls' = o.calls
          /\ decoded' = o.decoded
          /\ mempool' = o.mempool
    /\ method' = m
    /\ args' = a
    /\ invoked' = (m \in HandlerNames)
    /\ db_rows' = Len(transactions)
    /\ pc' = "answered"
    /\ UNCHANGED <<transactions, misc, legacy_db, callbacks, appended, failed_before>>
    /\ UNCHANGED env_vars

\* ------------------------------------------------- ledger contents

\* The contents of one block: an optional payment (sender, recipient) and the
\* miner.  The mining transaction is the block's last row.
Payments == {<<>>} \cup {<<x, y>> : x \in Addresses, y \in Addresses}

OpenfieldOf(pay) ==
    IF pay[1] = pay[2] THEN <<>>
    ELSE IF pay[1] = "a1" THEN <<"a", "b">> ELSE <<"A", "%">>

PaymentRow(h, pay, sig) ==
    Row(h, pay[1], pay[2], IF pay[1] = "a1" THEN 2 ELSE 1, 1, 0, OpenfieldOf(pay), sig)

MiningRow(h, miner, sig) == Row(h, miner, miner, 0, 0, RewardUnits, <<>>, sig)

MinerOf(h, pay) ==
    IF pay # <<>> THEN pay[1] ELSE IF h % 2 = 0 THEN "a2" ELSE "a1"

\* The rows of block h; row signatures are 2h - 1 (the payment) and 2h.
BlockRows(h, pay) ==
    IF pay = <<>>
    THEN <<MiningRow(h, MinerOf(h, pay), 2 * h)>>
    ELSE <<PaymentRow(h, pay, 2 * h - 1), MiningRow(h, MinerOf(h, pay), 2 * h)>>

DifficultyAt(h) == 100 + h

\* The payment of block h of the chain a run starts from.
HistoricPayment(h) ==
    IF h % 3 = 0 THEN <<"a1", "a2">>
    ELSE IF h % 5 = 0 THEN <<"a2", "a1">>
    ELSE <<>>

\* The rows of blocks lo..hi, by halves.
RECURSIVE ChainBetween(_, _)
ChainBetween(lo, hi) ==
    IF lo > hi THEN <<>>
    ELSE IF lo = hi THEN BlockRows(lo, HistoricPayment(lo))
    ELSE LET mid == (lo + hi) \div 2
         IN  ChainBetween(lo, mid) \o ChainBetween(mid + 1, hi)

Chain(top) == ChainBetween(1, top)
ChainMisc(top) == [h \in 1..top |-> [block_height |-> h, difficulty |-> DifficultyAt(h)]]

\* A chain whose every block holds a payment tagged in its openfield, the tags
\* going round Tags with the height.
Tags ==
    <<<<"a", "b">>, <<"A", "b">>, <<"a", "_">>, <<"x", "b">>, <<"a", "%">>,
      <<"_", "b">>, <<>>>>

TagAt(h) == Tags[(h % Len(Tags)) + 1]

TaggedRows(h) ==
    <<Row(h, "a1", "a2", 1, 1, 0, TagAt(h), 2 * h - 1), MiningRow(h, "a1", 2 * h)>>

RECURSIVE TaggedBetween(_, _)
TaggedBetween(lo, hi) ==
    IF lo > hi THEN <<>>
    ELSE IF lo = hi THEN TaggedRows(lo)
    ELSE LET mid == (lo + hi) \div 2
         IN  TaggedBetween(lo, mid) \o TaggedBetween(mid + 1, hi)

TaggedChain(top) == TaggedBetween(1, top)

\* A pending transaction of the mempool store.
PendingTx == [address |-> "a1", recipient |-> "a2", amount |-> 1]

\* --------------------------------------------------------------- Init

\* A live session, the lock free as __init__ leaves it, one connected peer,
\* no other thread at work.
QuietEnv ==
    /\ session_up = TRUE
    /\ callback_lock = "free"
    /\ peers = <<"10.0.0.1">>
    /\ work = <<>>
    /\ page = <<>>

NoDispatch ==
    /\ method = ""
    /\ args = <<>>
    /\ result = "None"
    /\ exception = ""
    /\ sent = <<>>
    /\ consumed = 0
    /\ app_log = <<>>
    /\ db_calls = <<>>
    /\ decoded = "none"
    /\ invoked = FALSE

InitWith(Tops, Pools) ==
    /\ \E top \in Tops :
          /\ transactions = Chain(top)
          /\ misc = ChainMisc(top)
    /\ legacy_db \in BOOLEAN
    /\ mempool \in Pools
    /\ callbacks = <<>>
    /\ appended = 0
    /\ db_rows = 0
    /\ failed_before = FALSE
    /\ pc = "idle"
    /\ NoDispatch
    /\ QuietEnv

Init == InitWith({ShortChain}, {MempoolNone, Mempool(<<PendingTx>>)})

\* ------------------------------------------------------ environment

\* The node appends the next block to the ledger.
AppendBlock ==
    /\ appended < MaxAppend
    /\ \E pay \in Payments :
          LET h == block_height_max + 1
          IN  /\ transactions' =
                    transactions \o BlockRows(h, pay)
              /\ misc' = Append(misc, [block_height |-> h,
                                       difficulty |-> DifficultyAt(h)])
    /\ appended' = appended + 1
    /\ UNCHANGED <<legacy_db, mempool, callbacks>>
    /\ UNCHANGED dispatch_vars
    /\ UNCHANGED env_vars

\* The serving thread, back from dispatch, waits for the session's next
\* command; what is kept of the finished dispatch is whether it failed.
AwaitCommand ==
    /\ pc = "answered"
    /\ pc' = "idle"
    /\ failed_before' = (failed_before \/ result = "False")
    /\ method' = ""
    /\ args' = <<>>
    /\ result' = "None"
    /\ exception' = ""
    /\ sent' = <<>>
    /\ consumed' = 0
    /\ app_log' = <<>>
    /\ db_calls' = <<>>
    /\ decoded' = "none"
    /\ invoked' = FALSE
    /\ db_rows' = 0
    /\ UNCHANGED <<transactions, misc, legacy_db, mempool, callbacks, appended>>
    /\ UNCHANGED env_vars

\* ------------------------------------------------- client commands

\* Each action is one dispatch of one command: the client sends the command
\* name and the command's documented parameters, and dispatch runs to its end.
IntVs(S) == {IntV(n) : n \in S}
Junk == StrV(<<"x">>)

\* Heights around the ledger's top and bottom, and the caps' edges below the top.
EdgeHeights(Back) == {0, 1} \cup {block_height_max - k : k \in Back}

AddressLists == {<<"a1">>, <<"a2">>, <<"a1", "a2">>}

UnknownCommand ==
    \E m \in {"api_nosuch", "getblock", "callbacks", "_get_balance"} :
        dispatch(m, <<>>)

Ping == dispatch("api_ping", <<>>)

MempoolSnapshot == dispatch("api_mempool", <<>>)

ClearMempool == dispatch("api_clearmempool", <<>>)

GetBlocksAfterWhere ==
    \E since \in IntVs({0, 1}), where \in {StrV(<<"a">>), StrV(<<"%">>)} :
        dispatch("api_getblocksafterwhere", <<since, where>>)

GetTransaction ==
    \E m \in {"api_gettransaction", "api_gettransactionbysignature"},
       txid \in {StrV(<<"a">>)}, format \in {BoolV(TRUE), BoolV(FALSE)} :
        dispatch(m, <<txid, format>>)

GetTransactionForRecipients ==
    \E format \in {BoolV(TRUE), BoolV(FALSE)} :
        dispatch("api_gettransaction_for_recipients",
                 <<StrV(<<"a">>), ListV(<<"a1">>), format>>)

GetAddressRange(Limits) ==
    \E address \in Addresses, limit \in IntVs(Limits) \cup {Junk} :
        dispatch("api_getaddressrange", <<StrV(address), IntV(1), limit>>)

GetBlockRange(Starts, Limits) ==
    \E start_block \in IntVs(Starts) \cup {Junk}, limit \in IntVs(Limits) \cup {Junk} :
        dispatch("api_getblockrange", <<start_block, limit>>)

GetBlockSince(Heights) ==
    \E since_height \in IntVs(Heights) \cup {Junk} :
        dispatch("api_getblocksince", <<since_height>>)

GetBlocksWhereOfLike(Heights, Prefixes) ==
    \E since_height \in IntVs(Heights) \cup {Junk},
       prefix \in {StrV(x) : x \in Prefixes} \cup {IntV(0)} :
        dispatch("api_getblockswhereoflike", <<since_height, prefix>>)

GetAddressSince(Heights, Minconfs) ==
    \E since_height \in IntVs(Heights) \cup {Junk},
       min_confirmations \in IntVs(Minconfs) \cup {Junk},
       address \in Addresses :
        dispatch("api_getaddresssince",
                 <<since_height, min_confirmations, StrV(address)>>)

GetBalance(Minconfs) ==
    \E addresses \in AddressLists, minconf \in IntVs(Minconfs) \cup {Junk} :
        dispatch("api_getbalance", <<ListV(addresses), minconf>>)

GetReceived(Minconfs) ==
    \E addresses \in AddressLists, minconf \in IntVs(Minconfs) \cup {Junk} :
        dispatch("api_getreceived", <<ListV(addresses), minconf>>)

ListReceived(Minconfs) ==
    \E addresses \in AddressLists, minconf \in IntVs(Minconfs) \cup {Junk},
       include_empty \in BOOLEAN :
        dispatch("api_listreceived",
                 <<ListV(addresses), minconf, BoolV(include_empty)>>)

ListBalance(Minconfs) ==
    \E addresses \in AddressLists, minconf \in IntVs(Minconfs) \cup {Junk},
       include_empty \in BOOLEAN :
        dispatch("api_listbalance",
                 <<ListV(addresses), minconf, BoolV(include_empty)>>)

GetConfig == dispatch("api_getconfig", <<>>)

GetPeerInfo == dispatch("api_getpeerinfo", <<>>)

GetAddressInfo ==
    \E address \in ValidAddresses \cup {"bad", ""} :
        dispatch("api_getaddressinfo", <<StrV(address)>>)

GetBlockFromHash ==
    \E m \in {"api_getblockfromhash", "api_getblockfromhashextra"},
       h \in {0, 1, block_height_max} :
        dispatch(m, <<StrV(h)>>)

GetBlockFromHeight ==
    \E h \in {0, 1, block_height_max} :
        dispatch("api_getblockfromheight", <<IntV(h)>>)

\* The client closes its end of the session, or the connection drops.
ClientDisconnects ==
    /\ pc = "idle"
    /\ session_up
    /\ session_up' = FALSE
    /\ UNCHANGED <<transactions, misc, legacy_db, mempool, callbacks, appended,
                   callback_lock, peers, work, page>>
    /\ UNCHANGED dispatch_vars

\* ------------------------------------------------------ specifications

\* The dispatcher and the session: every command, on short ledgers.
Next ==
    \/ AppendBlock
    \/ AwaitCommand
    \/ UnknownCommand
    \/ Ping
    \/ MempoolSnapshot
    \/ ClearMempool
    \/ GetBlocksAfterWhere
    \/ GetTransaction
    \/ GetTransactionForRecipients
    \/ GetAddressRange({1})
    \/ GetBlockRange({1}, {2})
    \/ GetBlockSince({0})
    \/ GetBlocksWhereOfLike({0}, {<<"a">>})
    \/ GetAddressSince({0}, {1})
    \/ GetBalance({1})

Spec == Init /\ [][Next]_vars

\* Every command of the handler object, on a session that may go down
\* between two commands, while the node appends blocks.
InitSession == InitWith({ShortChain}, {MempoolNone, Mempool(<<PendingTx>>)})

NextSession ==
    \/ AppendBlock
    \/ AwaitCommand
    \/ ClientDisconnects
    \/ UnknownCommand
    \/ Ping
    \/ MempoolSnapshot
    \/ ClearMempool
    \/ GetConfig
    \/ GetPeerInfo
    \/ GetAddressInfo
    \/ GetBlockFromHash
    \/ GetBlockFromHeight
    \/ GetBlocksAfterWhere
    \/ GetTransaction
    \/ GetTransactionForRecipients
    \/ GetAddressRange({1})
    \/ GetBlockRange({1}, {2})
    \/ GetBlockSince({0})
    \/ GetBlocksWhereOfLike({0}, {<<"a">>})
    \/ GetAddressSince({0}, {1})
    \/ GetBalance({1})
    \/ GetReceived({1})
    \/ ListReceived({1})
    \/ ListBalance({1})

SpecSession == InitSession /\ [][NextSession]_vars

\* The bounded range queries, each call checked against the ledger it ran on:
\* short, middling and long ledgers, with caller values on both sides of
\* every cap.  The ledger does not grow in this specification.
InitWin == InitWith({ShortChain, MidChain, LongChain}, {Mempool(<<>>)})

NextWin ==
    \/ AwaitCommand
    \/ GetAddressRange({-1, 0, 1, 499, 500, 501, 10000})
    \/ GetBlockRange({1} \cup {block_height_max - k : k \in {1, 49, 60}},
                     {-1, 0, 1, 49, 50, 51, 10000})
    \/ GetBlockSince(EdgeHeights({-1, 0, 1, 9, 10, 11, 12, 13}))
    \/ GetAddressSince(EdgeHeights({0, 1, 719, 720, 721, 722, 723, 724}), {0, 1, 3})

SpecWin == InitWin /\ [][NextWin]_vars

\* The aggregates, on short ledgers that grow.
\* The openfield query on tagged ledgers, a middling one and one deeper than
\* the span cap, with prefixes that hold letters of either case and the
\* pattern characters.
InitLike ==
    /\ \E top \in {MidChain, DeepChain} :
          /\ transactions = TaggedChain(top)
          /\ misc = ChainMisc(top)
    /\ legacy_db \in BOOLEAN
    /\ mempool = Mempool(<<>>)
    /\ callbacks = <<>>
    /\ appended = 0
    /\ db_rows = 0
    /\ failed_before = FALSE
    /\ pc = "idle"
    /\ NoDispatch
    /\ QuietEnv

LikePrefixes ==
    {<<>>, <<"a">>, <<"A">>, <<"_">>, <<"%">>, <<"a", "b">>, <<"a", "_">>,
     <<"a", "%">>, <<"%", "b">>}

NextLike ==
    \/ AwaitCommand
    \/ GetBlocksWhereOfLike(EdgeHeights({0, 1, 1439, 1440, 1441, 1442}), LikePrefixes)

SpecLike == InitLike /\ [][NextLike]_vars

InitBal == InitWith({ShortChain}, {Mempool(<<>>)})

NextBal ==
    \/ AppendBlock
    \/ AwaitCommand
    \/ GetBalance({0, 1, 2})
    \/ GetReceived({0, 1, 2})
    \/ ListReceived({0, 1, 2})
    \/ ListBalance({0, 1, 2})

SpecBal == InitBal /\ [][NextBal]_vars

\* ------------------------------------- api_getbalance, call by call

\* api_getbalance while another thread of the node appends blocks.  The handler
\* holds no transaction over its loop: every _get_balance reads
\* block_height_max() itself and then sums the rows up to the cutoff it
\* derived.  Blocks are appended above the height just read, so the two sums of
\* one _get_balance see the same rows whenever the append lands, and one
\* _get_balance is one step.  work holds the frame of the call in progress.
BalanceFrame(addresses, minconf, i, balance, top_start, calls) ==
    [addresses |-> addresses, minconf |-> minconf, i |-> i, balance |-> balance,
     top_start |-> top_start, calls |-> calls]

\* "balance = 0", the two receives, "if minconf < 1: minconf = 1"
BalanceBegin(Minconfs) ==
    /\ pc = "idle"
    /\ work = <<>>
    /\ \E addresses \in AddressLists \cup {<<"a2", "a1">>}, minconf \in Minconfs :
          /\ work' = <<BalanceFrame(addresses, ClampMinconf(minconf), 1,
                                    Integer(0), block_height_max, <<>>)>>
          /\ method' = "api_getbalance"
          /\ args' = <<ListV(addresses), IntV(minconf)>>
    /\ consumed' = 2
    /\ invoked' = TRUE
    /\ pc' = "running"
    /\ UNCHANGED <<result, exception, sent, app_log, db_calls, decoded, db_rows,
                   failed_before>>
    /\ UNCHANGED <<transactions, misc, legacy_db, mempool, callbacks, appended>>
    /\ UNCHANGED <<session_up, callback_lock, peers, page>>

\* "balance += self._get_balance(db_handler, address, minconf)" for the next
\* address of the list, on the ledger as it is now.
BalanceStep ==
    /\ pc = "running"
    /\ \E f \in {work[1]} :
          /\ f.i <= Len(f.addresses)
          /\ work' = <<BalanceFrame(f.addresses, f.minconf, f.i + 1,
                          NumAdd(f.balance, _get_balance(f.addresses[f.i], f.minconf)),
                          f.top_start,
                          f.calls \o BalanceCalls(f.addresses[f.i]))>>
    /\ UNCHANGED dispatch_vars
    /\ UNCHANGED <<transactions, misc, legacy_db, mempool, callbacks, appended>>
    /\ UNCHANGED <<session_up, callback_lock, peers, page>>

\* The loop is over: the conversion to coins, the send, and dispatch returns.
BalanceEnd ==
    /\ pc = "running"
    /\ \E f \in {work[1]} :
          /\ f.i > Len(f.addresses)
          /\ sent' = <<ToCoins(f.balance)>>
          /\ db_calls' = f.calls
    /\ result' = "None"
    /\ db_rows' = Len(transactions)
    /\ pc' = "answered"
    /\ UNCHANGED <<method, args, exception, consumed, app_log, decoded, invoked,
                   failed_before>>
    /\ UNCHANGED <<transactions, misc, legacy_db, mempool, callbacks, appended>>
    /\ UNCHANGED env_vars

\* The serving thread waits for the next command; the finished call's frame
\* is gone.
BalanceReturn ==
    /\ pc = "answered"
    /\ work # <<>>
    /\ work' = <<>>
    /\ pc' = "idle"
    /\ method' = ""
    /\ args' = <<>>
    /\ result' = "None"
    /\ exception' = ""
    /\ sent' = <<>>
    /\ consumed' = 0
    /\ app_log' = <<>>
    /\ db_calls' = <<>>
    /\ decoded' = "none"
    /\ invoked' = FALSE
    /\ db_rows' = 0
    /\ UNCHANGED failed_before
    /\ UNCHANGED <<transactions, misc, legacy_db, mempool, callbacks, appended>>
    /\ UNCHANGED <<session_up, callback_lock, peers, page>>

InitSnap == InitWith({ShortChain}, {Mempool(<<>>)})

NextSnap ==
    \/ AppendBlock
    \/ BalanceBegin({0, 1, 2})
    \/ BalanceStep
    \/ BalanceEnd
    \/ BalanceReturn

SpecSnap == InitSnap /\ [][NextSnap]_vars

\* ------------------------------------------- a paginating caller

\* A caller that follows the ledger page by page: it asks api_getaddresssince
\* (fixed address and min_confirmations) or api_getblockswhereoflike (fixed
\* prefix) for what lies above its cursor, keeps the transactions of the answer
\* and moves its cursor to the upper bound the answer ends with.  page holds
\* the caller's book: the query, the first since_height, the cursor, the
\* signatures received so far, whether one came twice, and the number of
\* ledger rows at its last answer (0 before the first).
PageBook(kind, key, minconf, first, cursor, seen, dup, rows) ==
    [kind |-> kind, key |-> key, minconf |-> minconf, first |-> first,
     cursor |-> cursor, seen |-> seen, dup |-> dup, rows |-> rows]

PageQueries ==
    {<<"address", a, m>> : a \in Addresses, m \in {-1, 0, 1}}
        \cup {<<"openfield", <<"a">>, 0>>}

InitPage ==
    /\ transactions = Chain(ShortChain)
    /\ misc = ChainMisc(ShortChain)
    /\ legacy_db \in BOOLEAN
    /\ mempool = Mempool(<<>>)
    /\ callbacks = <<>>
    /\ appended = 0
    /\ db_rows = 0
    /\ failed_before = FALSE
    /\ pc = "idle"
    /\ NoDispatch
    /\ session_up = TRUE
    /\ callback_lock = "free"
    /\ peers = <<"10.0.0.1">>
    /\ work = <<>>
    /\ \E q \in PageQueries, first \in {0, 1, ShortChain + 1} :
          page = <<PageBook(q[1], q[2], q[3], first, first, {}, FALSE, 0)>>

\* The caller's next request: since_height is its cursor.
PageRequest ==
    \E b \in {page[1]} :
        IF b.kind = "address"
        THEN dispatch("api_getaddresssince",
                      <<IntV(b.cursor), IntV(b.minconf), StrV(b.key)>>)
        ELSE dispatch("api_getblockswhereoflike", <<IntV(b.cursor), StrV(b.key)>>)

\* The transactions and the upper bound of an answer.
PageTransactions(kind, resp) ==
    IF kind = "address" THEN resp.transactions ELSE SubSeq(resp, 1, Len(resp) - 1)
PageBound(kind, resp) ==
    IF kind = "address" THEN resp.last ELSE resp[Len(resp)][1]

\* The caller reads the answer, and the serving thread waits for the next
\* command.
ClientTakesPage ==
    /\ pc = "answered"
    /\ result = "None"
    /\ \E b \in {page[1]} :
          \E txs \in {PageTransactions(b.kind, sent[1])} :
              page' = <<PageBook(b.kind, b.key, b.minconf, b.first,
                                 PageBound(b.kind, sent[1]),
                                 b.seen \cup {txs[i].signature : i \in 1..Len(txs)},
                                 \/ b.dup
                                 \/ \E i \in 1..Len(txs) : txs[i].signature \in b.seen
                                 \/ \E i, j \in 1..Len(txs) :
                                       i # j /\ txs[i].signature = txs[j].signature,
                                 db_rows)>>
    /\ pc' = "idle"
    /\ method' = ""
    /\ args' = <<>>
    /\ result' = "None"
    /\ exception' = ""
    /\ sent' = <<>>
    /\ consumed' = 0
    /\ app_log' = <<>>
    /\ db_calls' = <<>>
    /\ decoded' = "none"
    /\ invoked' = FALSE
    /\ db_rows' = 0
    /\ UNCHANGED failed_before
    /\ UNCHANGED <<transactions, misc, legacy_db, mempool, callbacks, appended>>
    /\ UNCHANGED <<session_up, callback_lock, peers, work>>

NextPage ==
    \/ AppendBlock
    \/ PageRequest
    \/ ClientTakesPage

SpecPage == InitPage /\ [][NextPage]_vars

\* ------------------------------------------------------------ claims

Answered == pc = "answered"

DisabledNames ==
    {"api_getblocksafterwhere", "api_gettransaction",
     "api_gettransactionbysignature", "api_gettransaction_for_recipients"}

\* C1: dispatch never lets an exception reach its caller: it returns None or
\* False; it returns False whenever the name is not a registered handler or
\* the call raised; and on a session where an earlier dispatch failed, a
\* dispatch of a registered command still calls its handler (api_ping still
\* answers api_pong).
C1_DispatchContainsFailure ==
    Answered =>
        /\ result \in {"None", "False"}
        /\ (method \notin HandlerNames => result = "False")
        /\ (exception # "" => result = "False")
        /\ (failed_before /\ method \in HandlerNames => invoked)
        /\ (failed_before /\ method = "api_ping" =>
                result = "None" /\ sent = <<"api_pong">>)

\* C1 witness: after a failed dispatch, api_ping was dispatched and answered.
C1_Witness ==
    /\ Answered
    /\ failed_before
    /\ method = "api_ping"
    /\ sent = <<"api_pong">>

\* C7: a disabled operation fails for every input: dispatch returns False,
\* nothing is written to the session and the ledger store is never called.
C7_DisabledFail ==
    Answered /\ method \in DisabledNames =>
        /\ result = "False"
        /\ sent = <<>>
        /\ db_calls = <<>>

\* C7 witness: api_gettransaction dispatched with a well-formed txid and format.
C7_Witness ==
    /\ Answered
    /\ method = "api_gettransaction"
    /\ Len(args) = 2
    /\ result = "False"

\* blocktojsondiffs on its own: every list of at most MaxRows fetched rows of
\* nondecreasing heights, each a payment or a reward row, with every list of
\* at most MaxRows difficulties.
RowLists ==
    {rows \in UNION {[1..n -> (1..DiffHeights) \X BOOLEAN] : n \in 0..MaxRows} :
        \A k \in 1..(Len(rows) - 1) : rows[k][1] <= rows[k + 1][1]}

RowOf(spec, sig) ==
    IF spec[2] THEN MiningRow(spec[1], "a2", sig)
    ELSE PaymentRow(spec[1], <<"a1", "a2">>, sig)

InitDiffs ==
    /\ transactions = <<>>
    /\ misc = <<>>
    /\ legacy_db \in BOOLEAN
    /\ mempool = Mempool(<<>>)
    /\ callbacks = <<>>
    /\ appended = 0
    /\ db_rows = 0
    /\ failed_before = FALSE
    /\ pc = "idle"
    /\ method = ""
    /\ \E rows \in RowLists, n \in 0..MaxRows :
          args = <<ListV(MapFetched([k \in 1..Len(rows) |-> RowOf(rows[k], k)])),
                   ListV([k \in 1..n |-> <<DifficultyAt(k)>>])>>
    /\ result = "None"
    /\ exception = ""
    /\ sent = <<>>
    /\ consumed = 0
    /\ app_log = <<>>
    /\ db_calls = <<>>
    /\ decoded = "none"
    /\ invoked = FALSE
    /\ QuietEnv

\* self.blocktojsondiffs(raw_txs, raw_diffs), as api_getblockrange calls it.
CallBlockToJsonDiffs ==
    /\ pc = "idle"
    /\ \E d \in {blocktojsondiffs(args[1].v, args[2].v)} :
          /\ sent' = IF d.raised THEN <<>> ELSE <<d.blocks_dict>>
          /\ exception' = IF d.raised THEN "IndexError: list index out of range"
                          ELSE ""
    /\ method' = "blocktojsondiffs"
    /\ decoded' = "legacy"
    /\ pc' = "answered"
    /\ UNCHANGED <<transactions, misc, legacy_db, mempool, callbacks, appended,
                   args, result, consumed, app_log, db_calls, invoked, db_rows,
                   failed_before>>
    /\ UNCHANGED env_vars

NextDiffs == CallBlockToJsonDiffs

\* The block range query on ledgers of every shape: any list of rows as in
\* RowLists for table transactions, and a difficulty record for any subset of
\* the heights.
RECURSIVE MiscOf(_, _)
MiscOf(heights, h) ==
    IF h > DiffHeights THEN <<>>
    ELSE (IF h \in heights
          THEN <<[block_height |-> h, difficulty |-> DifficultyAt(h)]>>
          ELSE <<>>) \o MiscOf(heights, h + 1)

InitRange ==
    /\ \E rows \in RowLists, heights \in SUBSET (1..DiffHeights) :
          /\ transactions = [k \in 1..Len(rows) |-> RowOf(rows[k], k)]
          /\ misc = MiscOf(heights, 1)
    /\ legacy_db \in BOOLEAN
    /\ mempool = Mempool(<<>>)
    /\ callbacks = <<>>
    /\ appended = 0
    /\ db_rows = 0
    /\ failed_before = FALSE
    /\ pc = "idle"
    /\ NoDispatch
    /\ QuietEnv

NextRange ==
    \/ AwaitCommand
    \/ GetBlockRange({1, 2}, {1, DiffHeights})

SpecRange == InitRange /\ [][NextRange]_vars

SpecDiffs == InitDiffs /\ [][NextDiffs]_vars

\* ---- what the claims measure the answers against

\* The ledger as the answered dispatch saw it (the table only grows).
LedgerThen == SubSeq(transactions, 1, db_rows)

\* The ledger's maximum height then.
MaxThen == MaxHeightIn(transactions, 1, db_rows)

RECURSIVE SumSeq(_, _, _)
SumSeq(xs, lo, hi) ==
    IF lo > hi THEN 0
    ELSE IF lo = hi THEN xs[lo]
    ELSE LET mid == (lo + hi) \div 2
         IN  SumSeq(xs, lo, mid) + SumSeq(xs, mid + 1, hi)

Total(xs) == SumSeq(xs, 1, Len(xs))

\* sum of amount+reward over the rows received by address up to height cutoff
CreditUnits(address, cutoff) ==
    Total([i \in 1..Len(LedgerThen) |->
            LET r == LedgerThen[i]
            IN  IF r.recipient = address /\ r.block_height <= cutoff
                THEN r.amount + r.reward ELSE 0])

\* sum of amount+fee over the rows sent by address up to height cutoff
DebitUnits(address, cutoff) ==
    Total([i \in 1..Len(LedgerThen) |->
            LET r == LedgerThen[i]
            IN  IF r.address = address /\ r.block_height <= cutoff
                THEN r.amount + r.fee ELSE 0])

\* sum of reward over the rows received by address up to height cutoff
RewardUnitsTo(address, cutoff) ==
    Total([i \in 1..Len(LedgerThen) |->
            LET r == LedgerThen[i]
            IN  IF r.recipient = address /\ r.block_height <= cutoff
                THEN r.reward ELSE 0])

\* A reported number of coins, as a count of 1e-8 units.
UnitsOf(n) == IF n.den = SCALE THEN n.num ELSE n.num * SCALE

\* An aggregate command answered with a numeric minconf.
AggregateAnswered(m) ==
    /\ Answered
    /\ method = m
    /\ IsInt(args[2])

\* The cutoff height of that call: maxHeight - minconf, minconf at least 1.
CutoffThen == MaxThen - (IF args[2].v < 1 THEN 1 ELSE args[2].v)

Listed == {args[1].v[i] : i \in 1..Len(args[1].v)}

\* C2: the balance computed for an address is the sum of amount+reward over
\* the rows it received minus the sum of amount+fee over the rows it sent,
\* both up to height maxHeight - minconf (0 when no row matches): api_listbalance
\* reports exactly that for each listed address (dropping, without
\* include_empty, those not above 0), and api_getbalance their total.
C2_BalanceFormula ==
    /\ AggregateAnswered("api_listbalance") =>
          /\ DOMAIN sent[1] =
                {x \in Listed :
                    args[3].v \/ CreditUnits(x, CutoffThen) - DebitUnits(x, CutoffThen) > 0}
          /\ \A x \in DOMAIN sent[1] :
                UnitsOf(sent[1][x]) =
                    CreditUnits(x, CutoffThen) - DebitUnits(x, CutoffThen)
    /\ AggregateAnswered("api_getbalance") =>
          UnitsOf(sent[1]) =
              Total([i \in 1..Len(args[1].v) |->
                        CreditUnits(args[1].v[i], CutoffThen)
                        - DebitUnits(args[1].v[i], CutoffThen)])

\* C2 witness: a listed address with counted credits and counted debits, a
\* balance that is not 0, and a row of its own above the cutoff.
C2_Witness ==
    /\ AggregateAnswered("api_listbalance")
    /\ \E x \in DOMAIN sent[1] :
          /\ CreditUnits(x, CutoffThen) > 0
          /\ DebitUnits(x, CutoffThen) > 0
          /\ UnitsOf(sent[1][x]) # 0
          /\ \E i \in 1..Len(LedgerThen) :
                /\ LedgerThen[i].recipient = x
                /\ LedgerThen[i].block_height > CutoffThen

\* C3 as claimed: the total received reported for an address equals the credit
\* term of the balance formula, amount+reward over the rows it received.
C3_ReceivedIsCreditTerm ==
    AggregateAnswered("api_listreceived") =>
        \A x \in DOMAIN sent[1] : UnitsOf(sent[1][x]) = CreditUnits(x, CutoffThen)

\* C3 amended: the total received for an address is the sum of amount alone
\* over the rows it received up to maxHeight - minconf, that is the credit
\* term of the balance formula less the rewards it counts.
C3_ReceivedIsAmountPart ==
    /\ AggregateAnswered("api_listreceived") =>
          /\ DOMAIN sent[1] =
                {x \in Listed :
                    args[3].v
                    \/ CreditUnits(x, CutoffThen) - RewardUnitsTo(x, CutoffThen) > 0}
          /\ \A x \in DOMAIN sent[1] :
                UnitsOf(sent[1][x]) =
                    CreditUnits(x, CutoffThen) - RewardUnitsTo(x, CutoffThen)
    /\ AggregateAnswered("api_getreceived") =>
          UnitsOf(sent[1]) =
              Total([i \in 1..Len(args[1].v) |->
                        CreditUnits(args[1].v[i], CutoffThen)
                        - RewardUnitsTo(args[1].v[i], CutoffThen)])

\* C3 witness: an address that received both payments and mining rewards
\* below the cutoff.
C3_Witness ==
    /\ AggregateAnswered("api_listreceived")
    /\ \E x \in DOMAIN sent[1] :
          /\ RewardUnitsTo(x, CutoffThen) > 0
          /\ UnitsOf(sent[1][x]) > 0

\* ---- the windowed queries

\* The rows of ledger with a height in (lo, hi].
RowsBetween(ledger, lo, hi) ==
    {ledger[i] : i \in {j \in 1..Len(ledger) :
                           ledger[j].block_height > lo /\ ledger[j].block_height <= hi}}

SignaturesIn(rowset) == {r.signature : r \in rowset}

SignaturesOf(rows) == {rows[i].signature : i \in 1..Len(rows)}

HeightsOf(rows) == {rows[i].block_height : i \in 1..Len(rows)}

\* A returned transaction with its amounts as counts of units: the ledger row.
InUnits(tx) ==
    [tx EXCEPT !.amount = UnitsOf(@), !.fee = UnitsOf(@), !.reward = UnitsOf(@)]

SinceAnswered ==
    /\ Answered
    /\ method = "api_getblocksince"
    /\ IsInt(args[1])

\* C4 as claimed: whatever since_height is, the response holds every
\* transaction of the 10 most recent blocks.
C4_AlwaysTenRecent ==
    SinceAnswered =>
        \A ledger \in {LedgerThen}, top \in {MaxThen} :
            SignaturesIn(RowsBetween(ledger, top - 10, top))
                \subseteq SignaturesOf(sent[1])

\* C4 amended: for a since_height of at most maxHeight - 10 the response holds
\* every transaction of the 10 most recent blocks; for a larger since_height
\* it holds exactly the transactions above since_height, none at all when
\* since_height is the maximum height.
C4_TenRecentWhenBehind ==
    SinceAnswered =>
        \A ledger \in {LedgerThen}, top \in {MaxThen} :
            /\ args[1].v <= top - 10 =>
                  SignaturesIn(RowsBetween(ledger, top - 10, top))
                      \subseteq SignaturesOf(sent[1])
            /\ args[1].v > top - 10 =>
                  SignaturesOf(sent[1]) =
                      SignaturesIn(RowsBetween(ledger, args[1].v, top))
            /\ args[1].v >= top => sent[1] = <<>>

\* C4 witness: a ledger of more than 10 blocks asked for the blocks since its
\* maximum height, answered with no transaction.
C4_Witness ==
    /\ SinceAnswered
    /\ MaxThen > 10
    /\ args[1].v = MaxThen
    /\ result = "None"
    /\ sent[1] = <<>>

\* C5: the response holds transactions of at most 10 distinct heights, and for
\* a since_height below maxHeight - 10 exactly those of the 10 most recent
\* blocks.
C5_AtMostTenBlocks ==
    SinceAnswered =>
        \A ledger \in {LedgerThen}, top \in {MaxThen} :
            /\ Cardinality(HeightsOf(sent[1])) <= 10
            /\ args[1].v < top - 10 =>
                  SignaturesOf(sent[1]) =
                      SignaturesIn(RowsBetween(ledger, top - 10, top))

RangeAnswered(m, n) ==
    /\ Answered
    /\ method = m
    /\ \A i \in 1..n : IsInt(args[i])

CappedAt(limit, cap) == IF limit > cap THEN cap ELSE limit

C6_BlockRangeReached ==
    /\ RangeAnswered("api_getblockrange", 2)
    /\ args[2] = IntV(10000)
    /\ MaxThen >= args[1].v + 50
    /\ Cardinality(DOMAIN sent[1].json) = 50

\* C10: api_getaddresssince answers with exactly the ledger's transactions of
\* heights in (since_height, min(maxHeight - minconf, since_height + 720)]
\* that the address sent or received, each once, by ascending height; 'last'
\* is that upper bound and 'minconf' the caller's value; the bound is at most
\* 720 above since_height.
C10_AddressSinceWindow ==
    RangeAnswered("api_getaddresssince", 2) =>
        \A ledger \in {LedgerThen}, txs \in {sent[1].transactions},
           bound \in {Min2(MaxThen - args[2].v, args[1].v + 720)} :
            /\ result = "None"
            /\ sent[1].last = bound
            /\ sent[1].minconf = args[2].v
            /\ sent[1].last - args[1].v <= 720
            /\ {InUnits(txs[i]) : i \in 1..Len(txs)} =
                  {r \in RowsBetween(ledger, args[1].v, bound) :
                      r.address = args[3].v \/ r.recipient = args[3].v}
            /\ Len(txs) = Cardinality(SignaturesOf(txs))
            /\ \A i \in 1..(Len(txs) - 1) :
                  txs[i].block_height <= txs[i + 1].block_height

\* C10 witness: the span cap decides the bound, the answer holds transactions,
\* and a transaction of the address lies between the bound and
\* maxHeight - minconf.
C10_Witness ==
    /\ RangeAnswered("api_getaddresssince", 2)
    /\ args[2].v > 0
    /\ sent[1].last = args[1].v + 720
    /\ Len(sent[1].transactions) > 0
    /\ \E ledger \in {LedgerThen}, top \in {MaxThen} :
          /\ sent[1].last < top - args[2].v
          /\ \E r \in RowsBetween(ledger, sent[1].last, top - args[2].v) :
                r.address = args[3].v

\* ---- blocktojsondiffs

DiffsReturned ==
    /\ Answered
    /\ method = "blocktojsondiffs"
    /\ exception = ""

IsRewardRow(r) == r.reward.num # 0

RowHeights(rows) == {rows[k].block_height : k \in 1..Len(rows)}

\* The index of the reward row of height h.
RewardIndex(rows, h) ==
    CHOOSE k \in 1..Len(rows) : rows[k].block_height = h /\ IsRewardRow(rows[k])

\* Each height of rows has exactly one reward row.
OneRewardPerHeight(rows) ==
    \A h \in RowHeights(rows) :
        Cardinality({k \in 1..Len(rows) :
                        rows[k].block_height = h /\ IsRewardRow(rows[k])}) = 1

SignatureList(rows) == [k \in 1..Len(rows) |-> rows[k].signature]

\* The payments of height h among rows, in order.
PaymentsOf(rows, h) ==
    SelectSeq(rows, LAMBDA r : r.block_height = h /\ ~IsRewardRow(r))

\* C8 as claimed: with exactly one reward row per height, at any position
\* among the height's rows, the output has one entry per height, whose
\* mining_tx is the height's reward row and whose transactions are all the
\* other rows of the height in input order.
C8_GroupsAllOthers ==
    (DiffsReturned /\ OneRewardPerHeight(args[1].v)) =>
        \A rows \in {args[1].v} :
            /\ DOMAIN sent[1] = RowHeights(rows)
            /\ \A h \in RowHeights(rows) :
                  /\ sent[1][h].mining_tx.signature =
                        rows[RewardIndex(rows, h)].signature
                  /\ SignatureList(sent[1][h].transactions) =
                        SignatureList(PaymentsOf(rows, h))

\* C8 amended: with exactly one reward row per height, the output has one
\* entry per height, whose mining_tx is the height's reward row and whose
\* transactions are the other rows of the height that come before the reward
\* row, in input order: all the others exactly when the reward row is the
\* last of its height.
C8_GroupsRowsBeforeReward ==
    (DiffsReturned /\ OneRewardPerHeight(args[1].v)) =>
        \A rows \in {args[1].v} :
            /\ DOMAIN sent[1] = RowHeights(rows)
            /\ \A h \in RowHeights(rows) :
                  /\ sent[1][h].mining_tx.signature =
                        rows[RewardIndex(rows, h)].signature
                  /\ SignatureList(sent[1][h].transactions) =
                        SignatureList(
                            PaymentsOf(SubSeq(rows, 1, RewardIndex(rows, h) - 1), h))
                  /\ (\A k \in 1..Len(rows) :
                          rows[k].block_height = h => k <= RewardIndex(rows, h))
                     => SignatureList(sent[1][h].transactions) =
                            SignatureList(PaymentsOf(rows, h))

\* C8 witness: the rows (h=1, payment), (h=1, payment), (h=1, reward),
\* (h=2, reward) give {1: mining_tx row 3 with rows 1 and 2, 2: mining_tx
\* row 4 with no transaction}.
C8_Witness ==
    /\ DiffsReturned
    /\ Len(args[1].v) = 4
    /\ [k \in 1..4 |-> <<args[1].v[k].block_height, IsRewardRow(args[1].v[k])>>]
          = <<<<1, FALSE>>, <<1, FALSE>>, <<1, TRUE>>, <<2, TRUE>>>>
    /\ DOMAIN sent[1] = {1, 2}
    /\ sent[1][1].mining_tx.signature = 3
    /\ SignatureList(sent[1][1].transactions) = <<1, 2>>
    /\ sent[1][2].mining_tx.signature = 4
    /\ sent[1][2].transactions = <<>>

\* ---- row encodings

\* C9: every operation that returns transactions decodes the stored rows as
\* v2 exactly when legacy_db is false and as legacy exactly when it is true.
C9_EncodingFollowsFlag ==
    (Answered /\ decoded # "none") => decoded = EncodingByFlag

\* ---- the openfield query

LikeAnswered ==
    /\ RangeAnswered("api_getblockswhereoflike", 1)
    /\ IsStr(args[2])
    /\ result = "None"

\* C11: api_getblockswhereoflike returns only transactions of heights in
\* (since_height, min(maxHeight, since_height + 1440)], a window of at most
\* 1440 blocks, and the last element of every successful response is that
\* upper bound.
C11_OpenfieldWindow ==
    LikeAnswered =>
        \A resp \in {sent[1]}, bound \in {Min2(MaxThen, args[1].v + 1440)} :
            /\ Len(resp) >= 1
            /\ resp[Len(resp)] = <<bound>>
            /\ bound - args[1].v <= 1440
            /\ \A i \in 1..(Len(resp) - 1) :
                  /\ resp[i].block_height > args[1].v
                  /\ resp[i].block_height <= bound

\* C11 witness: the span cap decides the bound, transactions are returned, and
\* the ledger holds matching transactions above the bound.
C11_Witness ==
    /\ LikeAnswered
    /\ args[2].v = <<"a", "b">>
    /\ Len(sent[1]) > 1
    /\ sent[1][Len(sent[1])] = <<args[1].v + 1440>>
    /\ \E ledger \in {LedgerThen} :
          \E r \in RowsBetween(ledger, args[1].v + 1440, MaxThen) :
              r.openfield = <<"a", "b">>

\* C12: every returned transaction's openfield starts with exactly the
\* caller's prefix, character for character, whatever the prefix holds.
C12_PrefixIsLiteral ==
    LikeAnswered =>
        \A resp \in {sent[1]} :
            \A i \in 1..(Len(resp) - 1) :
                /\ Len(resp[i].openfield) >= Len(args[2].v)
                /\ SubSeq(resp[i].openfield, 1, Len(args[2].v)) = args[2].v

\* ---- address info

InfoAnswered ==
    /\ Answered
    /\ method = "api_getaddressinfo"
    /\ session_up

\* C13: api_getaddressinfo on an address that fails the format check writes
\* exactly the response {known: false, pubkey: ""} and makes no ledger store
\* lookup.
C13_BadAddressNoLookup ==
    (InfoAnswered /\ ~address_is_valid(args[1].v)) =>
        /\ result = "None"
        /\ sent = <<[known |-> FALSE, pubkey |-> <<>>]>>
        /\ db_calls = <<>>

\* C13 witness: a malformed address answered with the default info and no
\* lookup.
C13_Witness ==
    /\ InfoAnswered
    /\ args[1].v = "bad"
    /\ sent = <<[known |-> FALSE, pubkey |-> <<>>]>>
    /\ db_calls = <<>>

\* ---- the mempool store

\* C14: in every state of the mempool store, the uninitialised one included,
\* api_clearmempool leaves the store empty and writes 'ok' to the session.
C14_ClearAlwaysOk ==
    (Answered /\ method = "api_clearmempool" /\ session_up) =>
        /\ result = "None"
        /\ sent = <<"ok">>
        /\ mempool = Mempool(<<>>)

\* ---- responses and failures

\* C15: a dispatch of a registered command writes exactly one response or
\* returns False; it never writes none while not reporting failure, and never
\* more than one.
C15_ResponseOrFailure ==
    (Answered /\ invoked) =>
        /\ Len(sent) <= 1
        /\ Len(sent) = 1 \/ result = "False"

\* The records of the dispatch's log that carry the text of its exception.
TextRecords == {i \in 1..Len(app_log) : app_log[i].text = exception}

DispatchStep == pc = "idle" /\ pc' = "answered"

C18_DifficultyOfItsHeight ==
    (RangeAnswered("api_getblockrange", 2) /\ result = "None") =>
        \A h \in DOMAIN sent[1].json :
            \E k \in 1..Len(misc) :
                /\ misc[k].block_height = h
                /\ misc[k].difficulty = sent[1].json[h].mining_tx.difficulty

\* ---- snapshot consistency

\* The sum over the listed addresses of the balance at height cutoff.
BalanceSumAt(addresses, cutoff) ==
    SumSeq([i \in 1..Len(addresses) |->
              CreditUnits(addresses[i], cutoff) - DebitUnits(addresses[i], cutoff)],
           1, Len(addresses))

\* api_getbalance has answered a call during which the ledger may have grown.
BalanceAnswered ==
    /\ Answered
    /\ method = "api_getbalance"
    /\ work # <<>>

\* C19: the total api_getbalance returns is the sum of the listed addresses'
\* balances all taken at one cutoff, the ledger's maximum height at some
\* instant between the call's start and its end, minus minconf, also when
\* blocks are appended during the call.
C19_SnapshotConsistent ==
    BalanceAnswered =>
        \E top \in work[1].top_start..MaxThen :
            UnitsOf(sent[1]) =
                BalanceSumAt(work[1].addresses, top - work[1].minconf)

\* ---- pagination

\* Row r is what the caller's query asks for: a transaction of its address, or
\* one whose openfield starts with its prefix.
PageMatches(b, r) ==
    IF b.kind = "address"
    THEN r.address = b.key \/ r.recipient = b.key
    ELSE /\ Len(r.openfield) >= Len(b.key)
         /\ SubSeq(r.openfield, 1, Len(b.key)) = b.key

\* The caller has taken at least one page and waits to ask for the next.
PageTaken ==
    /\ page # <<>>
    /\ pc = "idle"
    /\ page[1].rows > 0

\* C20: a caller that paginates by the returned bound while blocks are appended
\* never receives a transaction twice, and has received every transaction its
\* query asks for whose height lies above its first since_height and at or
\* below the last returned bound.
C20_PaginationLossless ==
    PageTaken =>
        \A b \in {page[1]} :
            /\ ~b.dup
            /\ \A r \in RowsBetween(SubSeq(transactions, 1, b.rows), b.first, b.cursor) :
                  PageMatches(b, r) => r.signature \in b.seen

\* ---- the session after a dispatch

\* The parameters a command takes, by type and in the order the handler's
\* receive calls and docstring give them; the three transaction lookups take
\* what the code below their leading raise would read.
DocumentedParams(m) ==
    CASE m \in {"api_ping", "api_mempool", "api_clearmempool", "api_getconfig",
                "api_getpeerinfo"} -> <<>>
      [] m \in {"api_getaddressinfo", "api_getblockfromhash",
                "api_getblockfromhashextra"} -> <<"str">>
      [] m \in {"api_getblockfromheight", "api_getblocksince"} -> <<"int">>
      [] m = "api_getaddressrange" -> <<"str", "int", "int">>
      [] m = "api_getblockrange" -> <<"int", "int">>
      [] m \in {"api_getblockswhereoflike", "api_getblocksafterwhere"} ->
            <<"int", "str">>
      [] m = "api_getaddresssince" -> <<"int", "int", "str">>
      [] m \in {"api_getbalance", "api_getreceived"} -> <<"list", "int">>
      [] m \in {"api_listreceived", "api_listbalance"} -> <<"list", "int", "bool">>
      [] m \in {"api_gettransaction", "api_gettransactionbysignature"} ->
            <<"str", "bool">>
      [] m = "api_gettransaction_for_recipients" -> <<"str", "list", "bool">>

\* dispatch has returned from a command whose documented parameters the client
\* had sent behind the command name, over a session that is up.
DocumentedAnswered ==
    /\ Answered
    /\ session_up
    /\ method \in HandlerNames
    /\ Len(args) = Len(DocumentedParams(method))
    /\ \A i \in 1..Len(args) : args[i].t = DocumentedParams(method)[i]

\* What the client sent behind the command name and dispatch left unread: the
\* value the session hands out next, if any.
Unread == SubSeq(args, consumed + 1, Len(args))

\* C21: when dispatch returns from a command sent with its documented
\* parameters, successfully or not and the disabled commands included, every
\* parameter has been read from the session: the next value read is the
\* client's next command name.
C21_SessionInStep == DocumentedAnswered => Unread = <<>>

====
